---------------------------- MODULE Spec2Model ----------------------------
(***************************************************************************)
(* Protege WX client (ICT Automation and Control Service protocol).        *)
(*                                                                         *)
(* The model follows src/protege_client.py: one ProtegeClient object, the  *)
(* asyncio tasks that run on it (API callers, the packet reader, the       *)
(* keepalive loop) and the panel at the other end of the TCP socket.       *)
(* One action is the code between two suspension points of a coroutine.    *)
(* Frames are sequences of bytes, built and parsed as the code does.       *)
(* Python's None is the empty sequence <<>>; a value v is <<v>> where an   *)
(* Optional is modelled.                                                   *)
(***************************************************************************)
EXTENDS Bags, Integers, Sequences, FiniteSets, TLC

(***************************************************************************)
(* Bounds of the model.                                                    *)
(***************************************************************************)
\* frames the client may write to one socket history before writers block
MaxSent == 6
\* frames the panel may send in one behaviour
MaxPanel == 2
\* connections opened in one behaviour
MaxConn == 2
\* API calls each command caller may start in one behaviour
MaxCalls == 1
\* session operations the main task may start in one behaviour
MaxSession == 4
\* the same two, where command callers and listeners run beside the session
MaxBusyConn == 1
MaxBusySession == 3
\* payloads given to the framer: every byte string of at most MaxPayload bytes
\* over PayloadBytes, and long ones of MaxData - 1 and MaxData bytes
MaxPayload == 2
MaxData == 1018
\* register_*_callback calls
MaxRegs == 3

(***************************************************************************)
(* Protocol constants (const.py).                                          *)
(***************************************************************************)
PACKET_TYPE_COMMAND == 0
PACKET_TYPE_DATA == 1
PACKET_TYPE_SYSTEM == 192

CMD_SYSTEM == 0
CMD_DOOR == 1
CMD_AREA == 2
CMD_OUTPUT == 3
CMD_INPUT == 4

SUBCMD_ARE_YOU_THERE == 0
SUBCMD_LOGIN == 2
SUBCMD_LOGOUT == 3
SUBCMD_SET_LOGIN_TIME == 4
SUBCMD_ACK_CONFIG == 8
SUBCMD_UNLOCK_DOOR == 1
SUBCMD_REQUEST_DOOR_STATUS == 128
SUBCMD_REQUEST_AREA_STATUS == 128

DATA_TYPE_DOOR_STATUS == 256
DATA_TYPE_AREA_STATUS == 512
DATA_TYPE_OUTPUT_STATUS == 768
DATA_TYPE_INPUT_STATUS == 1024
DATA_TYPE_END == 65535

DOOR_LOCKED == 1
DOOR_STATE_CLOSED == 0
AREA_ARMED == 128
INPUT_OPEN == 1
OUTPUT_OFF == 0

\* panel error codes carried by a NACK
ERR_INDEX_NOT_VALID == 289
ERR_DOOR_ALREADY_IN_STATE == 2610

(***************************************************************************)
(* Bytes.                                                                  *)
(***************************************************************************)
Min(a, b) == IF a < b THEN a ELSE b

\* struct.pack('<H', n)
PackH(n) == << n % 256, (n \div 256) % 256 >>

\* struct.pack('<I', n)
PackI(n) == << n % 256, (n \div 256) % 256, (n \div 65536) % 256, (n \div 16777216) % 256 >>

\* Python slice s[a:b] with 0-based a, b (both clamped to the length)
Slice(s, a, b) == SubSeq(s, Min(a, Len(s)) + 1, Min(b, Len(s)))

\* s[i] with 0-based i (the caller has checked i < len(s))
At(s, i) == s[i + 1]

\* struct.unpack('<H', b)[0] for a 2-byte b
UnpackH(b) == b[1] + 256 * b[2]

\* struct.unpack('<I', b)[0] for a 4-byte b
UnpackI(b) == b[1] + 256 * b[2] + 65536 * b[3] + 16777216 * b[4]

\* sum(b): the size of the bag that holds each position of b as many times
\* as the byte at that position says
SumBytes(s) == BagCardinality([i \in {j \in DOMAIN s : s[j] > 0} |-> s[i]])

(***************************************************************************)
(* Framer.                                                                 *)
(***************************************************************************)
\* _create_packet with a length field that leaves out the checksum byte
CreatePacketShortLength(packet_type, data) ==
    LET total_length == 2 + 2 + 1 + 1 + Len(data)
        packet == <<73, 67>> \o PackH(total_length) \o <<packet_type, 0>> \o data
    IN  packet \o << SumBytes(packet) % 256 >>

\* _create_packet with the default checksum_type = 1 (8-bit sum)
CreatePacket(packet_type, data) ==
    LET total_length == 2 + 2 + 1 + 1 + Len(data) + 1
        packet == <<73, 67>> \o PackH(total_length) \o <<packet_type, 0>> \o data
    IN  packet \o << SumBytes(packet) % 256 >>

\* _send_command builds the COMMAND frame of (cmd_group, subcmd, data)
CommandPacket(cmd_group, subcmd, data) ==
    CreatePacket(PACKET_TYPE_COMMAND, <<cmd_group, subcmd>> \o data)

\* _is_ack
IsAck(packet) ==
    IF Len(packet) < 8 THEN FALSE
    ELSE IF At(packet, 4) # PACKET_TYPE_SYSTEM THEN FALSE
    ELSE At(packet, 6) = 255 /\ At(packet, 7) = 0

(***************************************************************************)
(* Status records.  A parser returns <<record>>, or <<>> where the Python  *)
(* raises (struct.error on a short slice, IndexError on a missing byte).   *)
(***************************************************************************)
\* _parse_door_status_data
ParseDoorStatusData(data) ==
    IF Len(Slice(data, 0, 4)) # 4 \/ Len(data) < 6 THEN <<>>
    ELSE << [ index      |-> UnpackI(Slice(data, 0, 4)),
              lock_state |-> At(data, 4),
              door_state |-> At(data, 5),
              is_locked  |-> (At(data, 4) = DOOR_LOCKED),
              is_open    |-> (At(data, 5) # DOOR_STATE_CLOSED) ] >>

\* _parse_area_status_data with `state > AREA_ARMED` for is_armed
ParseAreaStatusDataArmedAbove(data) ==
    IF Len(Slice(data, 0, 4)) # 4 \/ Len(data) < 7 THEN <<>>
    ELSE << [ index        |-> UnpackI(Slice(data, 0, 4)),
              state        |-> At(data, 4),
              tamper_state |-> At(data, 5),
              flags        |-> At(data, 6),
              is_armed     |-> (At(data, 4) > AREA_ARMED),
              alarm_active |-> ((At(data, 6) % 2) # 0) ] >>

\* _parse_area_status_data
ParseAreaStatusData(data) ==
    IF Len(Slice(data, 0, 4)) # 4 \/ Len(data) < 7 THEN <<>>
    ELSE << [ index        |-> UnpackI(Slice(data, 0, 4)),
              state        |-> At(data, 4),
              tamper_state |-> At(data, 5),
              flags        |-> At(data, 6),
              is_armed     |-> (At(data, 4) >= AREA_ARMED),
              alarm_active |-> ((At(data, 6) % 2) # 0) ] >>

\* bytes.decode('ascii', errors='ignore'): the bytes above 127 are dropped
RECURSIVE DecodeAsciiIgnore(_)
DecodeAsciiIgnore(b) ==
    IF b = <<>> THEN <<>>
    ELSE (IF Head(b) < 128 THEN <<Head(b)>> ELSE <<>>) \o DecodeAsciiIgnore(Tail(b))

\* _parse_input_status_data
ParseInputStatusData(data) ==
    IF Len(Slice(data, 0, 4)) # 4 \/ Len(data) < 14 THEN <<>>
    ELSE << [ index       |-> UnpackI(Slice(data, 0, 4)),
              reference   |-> DecodeAsciiIgnore(Slice(data, 4, 12)),
              state       |-> At(data, 12),
              bypass      |-> At(data, 13),
              is_open     |-> (At(data, 12) = INPUT_OPEN),
              is_bypassed |-> ((At(data, 13) % 2) # 0) ] >>

\* _parse_output_status_data
ParseOutputStatusData(data) ==
    IF Len(Slice(data, 0, 4)) # 4 \/ Len(data) < 13 THEN <<>>
    ELSE << [ index     |-> UnpackI(Slice(data, 0, 4)),
              reference |-> DecodeAsciiIgnore(Slice(data, 4, 12)),
              state     |-> At(data, 12),
              is_on     |-> (At(data, 12) # OUTPUT_OFF) ] >>

\* the _parse_*_status_data function of a status data type
ParseStatusData(data_type, data) ==
    CASE data_type = DATA_TYPE_DOOR_STATUS   -> ParseDoorStatusData(data)
      [] data_type = DATA_TYPE_INPUT_STATUS  -> ParseInputStatusData(data)
      [] data_type = DATA_TYPE_OUTPUT_STATUS -> ParseOutputStatusData(data)
      [] data_type = DATA_TYPE_AREA_STATUS   -> ParseAreaStatusData(data)

(***************************************************************************)
(* _parse_door_status and its three copies: the search of a response       *)
(* packet for the record of one data type.  The result is                  *)
(* [exc |-> the parser raised, val |-> <<>> (None) or <<record>>].         *)
(***************************************************************************)
RECURSIVE ParseStatusLoop(_, _, _)
ParseStatusLoop(packet, pos, wanted) ==
    IF ~(pos < Len(packet) - 3) THEN [exc |-> FALSE, val |-> <<>>]
    ELSE LET data_type == UnpackH(Slice(packet, pos, pos + 2)) IN
         IF data_type = DATA_TYPE_END THEN [exc |-> FALSE, val |-> <<>>]
         ELSE LET data_length == At(packet, pos + 2) IN
              IF data_type = wanted
              THEN LET r == ParseStatusData(wanted, Slice(packet, pos + 3, pos + 3 + data_length))
                   IN  [exc |-> (r = <<>>), val |-> r]
              ELSE ParseStatusLoop(packet, pos + 3 + data_length, wanted)

ParseStatus(packet, wanted) ==
    IF Len(packet) < 10 THEN [exc |-> FALSE, val |-> <<>>]
    ELSE IF At(packet, 4) # PACKET_TYPE_DATA THEN [exc |-> FALSE, val |-> <<>>]
    ELSE ParseStatusLoop(packet, 6, wanted)

\* _parse_door_status
ParseDoorStatus(packet) == ParseStatus(packet, DATA_TYPE_DOOR_STATUS)

\* _parse_input_status
ParseInputStatus(packet) == ParseStatus(packet, DATA_TYPE_INPUT_STATUS)

\* _parse_output_status
ParseOutputStatus(packet) == ParseStatus(packet, DATA_TYPE_OUTPUT_STATUS)

\* _parse_area_status
ParseAreaStatus(packet) == ParseStatus(packet, DATA_TYPE_AREA_STATUS)

(***************************************************************************)
(* _process_data_packet: the dispatcher's walk over the TLV records of a   *)
(* DATA frame.  c holds the four caches (each a function from the indices  *)
(* it holds to the records), the listener lists (callbacks) and the        *)
(* listener invocations made so far (calls); the result adds exc, TRUE     *)
(* when a record's parser or a listener raised (what was done before it    *)
(* stays done).                                                            *)
(***************************************************************************)
Put(cache, rec) == (rec.index :> rec) @@ cache

StatusTypes == {DATA_TYPE_DOOR_STATUS, DATA_TYPE_INPUT_STATUS,
                DATA_TYPE_OUTPUT_STATUS, DATA_TYPE_AREA_STATUS}

\* the entity classes, and events: one listener list each
Classes == {"door", "input", "output", "area", "event"}

\* the callables handed to the register_*_callback methods; "raiser" raises
\* when it is called
Listeners == {"l1", "l2", "raiser"}
Raises(l) == l = "raiser"

\* the entity class of a status data type
ClassOf(data_type) ==
    CASE data_type = DATA_TYPE_DOOR_STATUS   -> "door"
      [] data_type = DATA_TYPE_INPUT_STATUS  -> "input"
      [] data_type = DATA_TYPE_OUTPUT_STATUS -> "output"
      [] data_type = DATA_TYPE_AREA_STATUS   -> "area"

\* the cache of an entity class
CacheOf(c, class) ==
    CASE class = "door"   -> c.doors
      [] class = "input"  -> c.inputs
      [] class = "output" -> c.outputs
      [] class = "area"   -> c.areas

\* self.doors[door_status['index']] = door_status, and the like
PutRecord(c, class, rec) ==
    CASE class = "door"   -> [c EXCEPT !.doors = Put(c.doors, rec)]
      [] class = "input"  -> [c EXCEPT !.inputs = Put(c.inputs, rec)]
      [] class = "output" -> [c EXCEPT !.outputs = Put(c.outputs, rec)]
      [] class = "area"   -> [c EXCEPT !.areas = Put(c.areas, rec)]

\* the cache of the class holds rec under rec's index
Cached(c, class, rec) ==
    rec.index \in DOMAIN CacheOf(c, class) /\ CacheOf(c, class)[rec.index] = rec

\* for callback in self.door_callbacks: callback(door_status), and the like;
\* each invocation is noted with what the listener finds in the cache
RECURSIVE Notify(_, _, _, _)
Notify(cbs, class, rec, c) ==
    IF cbs = <<>> THEN [exc |-> FALSE, c |-> c]
    ELSE LET c1 == [c EXCEPT !.calls = Append(@, [class |-> class, listener |-> Head(cbs),
                                                 index |-> rec.index,
                                                 cached |-> Cached(c, class, rec)])]
         IN  IF Raises(Head(cbs)) THEN [exc |-> TRUE, c |-> c1]
             ELSE Notify(Tail(cbs), class, rec, c1)

RECURSIVE ProcessDataLoop(_, _, _)
ProcessDataLoop(packet, pos, c) ==
    IF ~(pos < Len(packet) - 3) THEN [exc |-> FALSE, c |-> c]
    ELSE LET data_type == UnpackH(Slice(packet, pos, pos + 2)) IN
         IF data_type = DATA_TYPE_END THEN [exc |-> FALSE, c |-> c]
         ELSE LET data_length == At(packet, pos + 2)
                  data == Slice(packet, pos + 3, pos + 3 + data_length)
                  next == pos + 3 + data_length
              IN  IF data_type \in StatusTypes
                  THEN LET r == ParseStatusData(data_type, data) IN
                       IF r = <<>> THEN [exc |-> TRUE, c |-> c]
                       ELSE LET class == ClassOf(data_type)
                                n == Notify(c.callbacks[class], class, r[1],
                                            PutRecord(c, class, r[1]))
                            IN  IF n.exc THEN n
                                ELSE ProcessDataLoop(packet, next, n.c)
                  ELSE \* no branch for the type (an event record goes to the
                       \* event listeners, of which the model registers none)
                       ProcessDataLoop(packet, next, c)

\* a dispatcher that raises when the first record's type is none it knows
ProcessDataPacketStrict(packet, c) ==
    IF 6 < Len(packet) - 3
       /\ UnpackH(Slice(packet, 6, 8)) \notin StatusTypes \cup {DATA_TYPE_END}
    THEN [exc |-> TRUE, c |-> c]
    ELSE ProcessDataLoop(packet, 6, c)

ProcessDataPacket(packet, c) == ProcessDataLoop(packet, 6, c)

(***************************************************************************)
(* _read_packet on the socket's receive stream: inbox is the bytes the     *)
(* panel has sent and the reader has not consumed, eof says the stream     *)
(* ends after them.  The result: block (readexactly waits for more         *)
(* bytes), packet (<<>> for None), rest (the stream it leaves), lost       *)
(* (IncompleteReadError: self.connected = False).                          *)
(***************************************************************************)
ReadPacket(stream, at_eof) ==
    LET Short(rest) == [block |-> ~at_eof, packet |-> <<>>,
                        rest |-> IF at_eof THEN <<>> ELSE rest, lost |-> at_eof]
        length == UnpackH(Slice(stream, 2, 4))
    IN  IF Len(stream) < 2 THEN Short(stream)
        ELSE IF Slice(stream, 0, 2) # <<73, 67>>
             THEN [block |-> FALSE, packet |-> <<>>,
                   rest |-> Slice(stream, 2, Len(stream)), lost |-> FALSE]
        ELSE IF Len(stream) < 4 THEN Short(stream)
        ELSE IF length < 6 \/ length > 1024
             THEN [block |-> FALSE, packet |-> <<>>,
                   rest |-> Slice(stream, 4, Len(stream)), lost |-> FALSE]
        ELSE IF Len(stream) < length THEN Short(stream)
        ELSE [block |-> FALSE, packet |-> Slice(stream, 0, length),
              rest |-> Slice(stream, length, Len(stream)), lost |-> FALSE]

(***************************************************************************)
(* The tasks.  "main" runs the session operations (connect, login, logout, *)
(* disconnect); the callers run typed commands.                            *)
(***************************************************************************)
Callers == {"c1", "c2"}
Procs == {"main"} \cup Callers

\* the typed action commands (lock_door, unlock_door, ..., disarm_area) differ
\* in the command bytes only: each returns `response is not None`
ActionOps == {"unlock_door"}
\* the status requests
GetOps == {"get_door_status", "get_area_status"}
\* caller c1 issues the action commands, caller c2 the status requests
CallerOps(p) == IF p = "c1" THEN ActionOps ELSE GetOps
\* the door and area indices the callers use
Indices == {5}

VARIABLE pin          \* self.pin, a string: the sequence of its character codes

\* the digits of the PIN "1234" of the configuration entry
Pin == <<1, 2, 3, 4>>
\* the PIN "1234"
ValidPin == <<49, 50, 51, 52>>

\* str.isdigit for an ASCII character
IsDigit(ch) == ch \in 48..57

\* login: [int(d) for d in self.pin if d.isdigit()]
RECURSIVE Digits(_)
Digits(str) ==
    IF str = <<>> THEN <<>>
    ELSE (IF IsDigit(Head(str)) THEN <<Head(str) - 48>> ELSE <<>>) \o Digits(Tail(str))

\* login: the digits of the PIN (at most 6) and the terminator
LoginPacket(pin_bytes) ==
    CreatePacket(PACKET_TYPE_COMMAND,
                 <<CMD_SYSTEM, SUBCMD_LOGIN>> \o Slice(pin_bytes, 0, 6) \o <<255>>)

\* _set_login_time(600)
SetLoginTimePacket == CommandPacket(CMD_SYSTEM, SUBCMD_SET_LOGIN_TIME, PackH(600))

\* _configure_ack
ConfigureAckPacket ==
    CommandPacket(CMD_SYSTEM, SUBCMD_ACK_CONFIG, <<1, 3, 3, 0, 0, 0, 0, 0>>)

\* the are-you-there command of connect() and of the keepalive loop
AreYouTherePacket == CommandPacket(CMD_SYSTEM, SUBCMD_ARE_YOU_THERE, <<>>)

\* _send_ack: the ACK frame
AckPacket == CreatePacket(PACKET_TYPE_SYSTEM, <<255, 0>>)

\* the COMMAND frame of command c with index i
PacketOf(c, i) ==
    CASE c = "probe"           -> AreYouTherePacket
      [] c = "login"           -> LoginPacket(Digits(pin))
      [] c = "set_login_time"  -> SetLoginTimePacket
      [] c = "configure_ack"   -> ConfigureAckPacket
      [] c = "logout"          -> CommandPacket(CMD_SYSTEM, SUBCMD_LOGOUT, <<>>)
      [] c = "unlock_door"     -> CommandPacket(CMD_DOOR, SUBCMD_UNLOCK_DOOR, PackI(i))
      [] c = "get_door_status" -> CommandPacket(CMD_DOOR, SUBCMD_REQUEST_DOOR_STATUS, PackI(i))
      [] c = "get_area_status" -> CommandPacket(CMD_AREA, SUBCMD_REQUEST_AREA_STATUS, PackI(i))

(***************************************************************************)
(* The frames the panel sends.                                             *)
(***************************************************************************)
NackPacket(code) == CreatePacket(PACKET_TYPE_SYSTEM, <<255, 255>> \o PackH(code))

\* a DATA frame of one TLV record and the end marker
DataPacket(data_type, value) ==
    CreatePacket(PACKET_TYPE_DATA,
                 PackH(data_type) \o <<Len(value)>> \o value \o PackH(DATA_TYPE_END))

\* door 5, locked, open (two reserved bytes)
DoorStatusPacket == DataPacket(DATA_TYPE_DOOR_STATUS, PackI(5) \o <<1, 2, 0, 0>>)

\* a door status record cut to two bytes: its parser raises
ShortDoorStatusPacket == DataPacket(DATA_TYPE_DOOR_STATUS, <<5, 0>>)

\* door 5, unlocked, closed
DoorClosedPacket == DataPacket(DATA_TYPE_DOOR_STATUS, PackI(5) \o <<0, 0, 0, 0>>)

\* one TLV record
Tlv(data_type, value) == PackH(data_type) \o <<Len(value)>> \o value

\* a DATA frame of two records: door 5 (locked, open), then area 2 (armed)
DoorAreaPacket ==
    CreatePacket(PACKET_TYPE_DATA,
                 Tlv(DATA_TYPE_DOOR_STATUS, PackI(5) \o <<1, 2, 0, 0>>)
                 \o Tlv(DATA_TYPE_AREA_STATUS, PackI(2) \o <<128, 0, 0, 0>>)
                 \o PackH(DATA_TYPE_END))

\* door 6, locked, open
Door6Packet == DataPacket(DATA_TYPE_DOOR_STATUS, PackI(6) \o <<1, 2, 0, 0>>)

\* a DATA frame of two records: one of type 0x7F00, which the client does
\* not know, with two bytes of data, then door 6 (locked, open)
UnknownDoorPacket ==
    CreatePacket(PACKET_TYPE_DATA,
                 <<0, 127, 2, 9, 9>>
                 \o Tlv(DATA_TYPE_DOOR_STATUS, PackI(6) \o <<1, 2, 0, 0>>)
                 \o PackH(DATA_TYPE_END))

PanelFrames == {AckPacket, NackPacket(ERR_INDEX_NOT_VALID),
                NackPacket(ERR_DOOR_ALREADY_IN_STATE),
                DoorStatusPacket, ShortDoorStatusPacket}

(***************************************************************************)
(* State.                                                                  *)
(***************************************************************************)
VARIABLES
    connected,        \* self.connected
    logged_in,        \* self.logged_in
    writer,           \* self.writer: "none", "open" or "closed"
    lockq,            \* self._lock: the holder (head) and the waiters, in order
    respq,            \* self._response_queue
    inbox,            \* the socket's receive stream (bytes)
    eof,              \* the receive stream ends after inbox
    sent,             \* the frames written to the socket, in order
    pc,               \* where each task is: "idle", "wait_lock", "wait_resp", "disc_*"
    op,               \* the API method a task runs (or ran last)
    cmd,              \* the command of that method that is being sent
    arg,              \* the index argument of the method
    resp,             \* the last value _send_packet returned to the task
    result,           \* what the method returned: [ok, val, exc]
    matched,          \* the reader received the status record a get_*_status awaits
    ncalls,           \* methods each task has started
    reader_tasks,     \* the _packet_reader tasks created; the last is self._reader_task
    keepalive_tasks,  \* the _keepalive_loop tasks created; the last is self._keepalive_task
    doors, inputs, outputs, areas,   \* the entity caches
    panel_sent,       \* frames the panel has sent
    data_rcvd,        \* DATA frames the packet reader has decoded
    callbacks,        \* self.door_callbacks, ..., self.event_callbacks, by class
    registered,       \* the register_*_callback calls made, in order
    calls             \* the listener invocations made, in order

\* The framer on its own: a packet type and a payload, the frame that
\* _create_packet makes of them, and what _read_packet makes of a stream
\* that starts with that frame.
VARIABLES
    enc_type,         \* packet_type given to _create_packet
    enc_data,         \* data given to _create_packet
    enc_packet,       \* what _create_packet returned (<<>>: not called yet)
    dec_result        \* <<>>, or <<[more, read]>>: the bytes that followed the
                      \* frame on the stream and the result of _read_packet

caches == <<doors, inputs, outputs, areas>>
client == <<connected, logged_in, writer, lockq, respq, inbox, eof, sent, pc, op, cmd,
            arg, resp, result, matched, ncalls, reader_tasks, keepalive_tasks,
            doors, inputs, outputs, areas, panel_sent, data_rcvd,
            pin, callbacks, registered, calls>>
framer == <<enc_type, enc_data, enc_packet, dec_result>>
vars == <<client, framer>>

\* what only the constructor and the register_*_callback methods set
setup == <<pin, callbacks, registered>>

\* what _process_data_packet reads and changes
DispatchState == [doors |-> doors, inputs |-> inputs, outputs |-> outputs,
                  areas |-> areas, callbacks |-> callbacks, calls |-> calls]

NoResult == [ok |-> FALSE, val |-> <<>>, exc |-> FALSE]
BoolResult(b) == [ok |-> b, val |-> <<>>, exc |-> FALSE]

\* ProtegeClient.__init__, but for self.pin
Constructed ==
    /\ connected = FALSE
    /\ logged_in = FALSE
    /\ writer = "none"
    /\ lockq = <<>>
    /\ respq = <<>>
    /\ inbox = <<>>
    /\ eof = FALSE
    /\ sent = <<>>
    /\ pc = [p \in Procs |-> "idle"]
    /\ op = [p \in Procs |-> "none"]
    /\ cmd = [p \in Procs |-> "none"]
    /\ arg = [p \in Procs |-> 0]
    /\ resp = [p \in Procs |-> <<>>]
    /\ result = [p \in Procs |-> NoResult]
    /\ matched = [p \in Procs |-> FALSE]
    /\ ncalls = [p \in Procs |-> 0]
    /\ reader_tasks = <<>>
    /\ keepalive_tasks = <<>>
    /\ doors = <<>>
    /\ inputs = <<>>
    /\ outputs = <<>>
    /\ areas = <<>>
    /\ panel_sent = 0
    /\ data_rcvd = 0
    /\ callbacks = [class \in Classes |-> <<>>]
    /\ registered = <<>>
    /\ calls = <<>>
    /\ enc_packet = <<>>
    /\ dec_result = <<>>

\* no frame is made outside the client's own methods
NoFrame == enc_type = PACKET_TYPE_COMMAND /\ enc_data = <<>>

\* ProtegeClient(host, port, "1234")
Init == pin = ValidPin /\ NoFrame /\ Constructed

\* is_connected
IsConnected == connected /\ logged_in

(***************************************************************************)
(* The part of the state a coroutine of the client changes between two     *)
(* suspension points, as a record: the operators below take it and return  *)
(* it changed, so that a chain of calls with no suspension between them    *)
(* is one step.                                                            *)
(***************************************************************************)
Cur == [connected |-> connected, logged_in |-> logged_in, writer |-> writer,
        lockq |-> lockq, respq |-> respq, eof |-> eof, inbox |-> inbox, sent |-> sent,
        pc |-> pc, op |-> op, cmd |-> cmd, arg |-> arg, resp |-> resp,
        result |-> result, reader_tasks |-> reader_tasks,
        keepalive_tasks |-> keepalive_tasks]

Apply(s) ==
    \E t \in {s} :
        /\ Len(t.sent) <= MaxSent
        /\ connected' = t.connected
        /\ logged_in' = t.logged_in
        /\ writer' = t.writer
        /\ lockq' = t.lockq
        /\ respq' = t.respq
        /\ eof' = t.eof
        /\ inbox' = t.inbox
        /\ sent' = t.sent
        /\ pc' = t.pc
        /\ op' = t.op
        /\ cmd' = t.cmd
        /\ arg' = t.arg
        /\ resp' = t.resp
        /\ result' = t.result
        /\ reader_tasks' = t.reader_tasks
        /\ keepalive_tasks' = t.keepalive_tasks

\* the method of task p returns r
Finish(s, p, r) == [s EXCEPT !.pc[p] = "idle", !.result[p] = r]

\* task.cancel() on the last task of a list, if it is still running
CancelLast(tasks) ==
    IF tasks # <<>> /\ tasks[Len(tasks)] # "done"
    THEN [tasks EXCEPT ![Len(tasks)] = "done"] ELSE tasks

Alive(tasks) == tasks # <<>> /\ tasks[Len(tasks)] # "done"

(***************************************************************************)
(* disconnect, after its logout: cancel the reader task and wait for it,   *)
(* cancel the keepalive task and wait for it, close the writer and wait,   *)
(* then clear connected and logged_in.  (self._monitoring_task is never    *)
(* set.)  Waiting for a task that is already done does not suspend.        *)
(***************************************************************************)
DisconnectFinal(s, p) ==
    Finish([s EXCEPT !.connected = FALSE, !.logged_in = FALSE], p, NoResult)

DisconnectClose(s, p) ==
    IF s.writer # "none"
    THEN [s EXCEPT !.writer = "closed", !.eof = TRUE, !.pc[p] = "disc_close"]
    ELSE DisconnectFinal(s, p)

DisconnectKeepalive(s, p) ==
    IF Alive(s.keepalive_tasks)
    THEN [s EXCEPT !.keepalive_tasks = CancelLast(@), !.pc[p] = "disc_keepalive"]
    ELSE DisconnectClose(s, p)

DisconnectTail(s, p) ==
    IF Alive(s.reader_tasks)
    THEN [s EXCEPT !.reader_tasks = CancelLast(@), !.pc[p] = "disc_reader"]
    ELSE DisconnectKeepalive(s, p)

(***************************************************************************)
(* What a get_*_status method returns for the response of its command.     *)
(***************************************************************************)
GetStatusResult(o, response) ==
    IF response = <<>> THEN NoResult
    ELSE IF o = "get_door_status"
         THEN LET r == ParseDoorStatus(response) IN
              \* an exception of the parser is caught: None
              [ok |-> FALSE, val |-> IF r.exc THEN <<>> ELSE r.val, exc |-> FALSE]
         ELSE LET r == ParseAreaStatus(response) IN
              \* get_area_status has no try: the exception reaches the caller
              [ok |-> FALSE, val |-> r.val, exc |-> r.exc]

\* what a typed action command returns: response is not None
ActionResult(response) == BoolResult(response # <<>>)

(***************************************************************************)
(* _send_packet, and what the calling method does with what it returns.    *)
(***************************************************************************)
RECURSIVE SendPacket(_, _), LockedSend(_, _), Continue(_, _, _)

\* _send_command: build the packet of command c and call _send_packet
SendCommand(s, p, c) == SendPacket([s EXCEPT !.cmd[p] = c], p)

\* _send_packet without `async with self._lock`
SendPacketUnlocked(s, p) ==
    IF ~s.connected \/ s.writer = "none" THEN Continue(s, p, <<>>)
    ELSE LockedSend([s EXCEPT !.lockq = <<p>> \o @], p)

\* _send_packet up to its first suspension
SendPacket(s, p) ==
    IF ~s.connected \/ s.writer = "none" THEN Continue(s, p, <<>>)
    ELSE IF s.lockq = <<>> THEN LockedSend([s EXCEPT !.lockq = <<p>>], p)
    ELSE [s EXCEPT !.lockq = Append(@, p), !.pc[p] = "wait_lock"]

\* _send_packet that leaves the response queue as it finds it
LockedSendKeepsQueue(s, p) ==
    IF s.writer = "closed"
    THEN Continue([s EXCEPT !.lockq = Tail(@)], p, <<>>)
    ELSE [s EXCEPT !.sent = Append(@, PacketOf(s.cmd[p], s.arg[p])),
                   !.pc[p] = "wait_resp"]

\* _send_packet holding the lock: drop the old responses, write the packet;
\* a closed writer raises, the lock is released and None returned
LockedSend(s, p) ==
    IF s.writer = "closed"
    THEN Continue([s EXCEPT !.respq = <<>>, !.lockq = Tail(@)], p, <<>>)
    ELSE [s EXCEPT !.respq = <<>>,
                   !.sent = Append(@, PacketOf(s.cmd[p], s.arg[p])),
                   !.pc[p] = "wait_resp"]

\* login() that starts the keepalive task as soon as the login is ACKed
LoginContinueEarlyKeepalive(s, p, response) ==
    CASE s.cmd[p] = "login" ->
            IF response = <<>> THEN Finish(s, p, BoolResult(FALSE))
            ELSE IF IsAck(response)
                 THEN SendCommand([s EXCEPT !.logged_in = TRUE,
                                            !.keepalive_tasks = Append(@, "sleep")],
                                  p, "set_login_time")
                 ELSE Finish(s, p, BoolResult(FALSE))
      [] s.cmd[p] = "set_login_time" -> SendCommand(s, p, "configure_ack")
      [] s.cmd[p] = "configure_ack" -> Finish(s, p, BoolResult(TRUE))

\* login() that takes any response to its login command for an ACK
LoginContinueAnyResponse(s, p, response) ==
    CASE s.cmd[p] = "login" ->
            IF response = <<>> THEN Finish(s, p, BoolResult(FALSE))
            ELSE SendCommand([s EXCEPT !.logged_in = TRUE], p, "set_login_time")
      [] s.cmd[p] = "set_login_time" -> SendCommand(s, p, "configure_ack")
      [] s.cmd[p] = "configure_ack" ->
            Finish([s EXCEPT !.keepalive_tasks = Append(@, "sleep")], p, BoolResult(TRUE))

\* login(), from the response to one of its three commands on
LoginContinue(s, p, response) ==
    CASE s.cmd[p] = "login" ->
            IF response = <<>> THEN Finish(s, p, BoolResult(FALSE))
            ELSE IF IsAck(response)
                 THEN SendCommand([s EXCEPT !.logged_in = TRUE], p, "set_login_time")
                 ELSE Finish(s, p, BoolResult(FALSE))
      [] s.cmd[p] = "set_login_time" -> SendCommand(s, p, "configure_ack")
      [] s.cmd[p] = "configure_ack" ->
            Finish([s EXCEPT !.keepalive_tasks = Append(@, "sleep")], p, BoolResult(TRUE))

\* logout() that leaves logged_in set
LogoutDoneStillLoggedIn(s, p) == Finish(s, p, NoResult)

\* logout(), after its command
LogoutDone(s, p) == Finish([s EXCEPT !.logged_in = FALSE], p, NoResult)

\* a get_*_status method that takes a response it cannot use for a lost session
GetStatusDoneDropsSession(s, p, response) ==
    LET r == GetStatusResult(s.op[p], response) IN
    IF response # <<>> /\ r.val = <<>>
    THEN Finish([s EXCEPT !.logged_in = FALSE], p, r)
    ELSE Finish(s, p, r)

\* a get_*_status method, after its command
GetStatusDone(s, p, response) == Finish(s, p, GetStatusResult(s.op[p], response))

\* a typed action command, after its command
ActionDone(s, p, response) == Finish(s, p, ActionResult(response))

\* the method of task p receives response from _send_packet
Continue(s, p, response) ==
    LET o == s.op[p]
        s1 == [s EXCEPT !.resp[p] = response]
    IN  CASE o \in ActionOps -> ActionDone(s1, p, response)
          [] o \in GetOps -> GetStatusDone(s1, p, response)
          [] o = "connect" -> Finish(s1, p, BoolResult(TRUE))
          [] o = "logout" -> LogoutDone(s1, p)
          [] o = "disconnect" -> DisconnectTail([s1 EXCEPT !.logged_in = FALSE], p)
          [] o = "login" -> LoginContinue(s1, p, response)

(***************************************************************************)
(* Actions of the API tasks.                                               *)
(***************************************************************************)
Started(p) == /\ matched' = [matched EXCEPT ![p] = FALSE]
              /\ ncalls' = [ncalls EXCEPT ![p] = @ + 1]
              /\ UNCHANGED <<caches, panel_sent, data_rcvd, setup, calls, framer>>

Stepped == UNCHANGED <<matched, ncalls, caches, panel_sent, data_rcvd, setup, calls, framer>>

Begin(p, o, i) == [Cur EXCEPT !.op[p] = o, !.arg[p] = i, !.cmd[p] = "none",
                              !.resp[p] = <<>>, !.result[p] = NoResult]

\* a caller starts a typed action command or a status request
Call(p, o, i) ==
    /\ pc[p] = "idle"
    /\ ncalls[p] < MaxCalls
    /\ Apply(SendCommand(Begin(p, o, i), p, o))
    /\ Started(p)

\* connect(): open_connection succeeds (opened) or fails; then the reader
\* task is created and the are-you-there probe sent
Connect(opened) ==
    /\ pc["main"] = "idle"
    /\ ncalls["main"] < MaxSession
    /\ Len(reader_tasks) < MaxConn
    /\ LET s == Begin("main", "connect", 0) IN
       IF opened
       THEN Apply(SendCommand([s EXCEPT !.writer = "open", !.inbox = <<>>,
                                        !.eof = FALSE, !.connected = TRUE,
                                        !.reader_tasks = Append(@, "run")],
                              "main", "probe"))
       ELSE Apply(Finish([s EXCEPT !.connected = FALSE], "main", BoolResult(FALSE)))
    /\ Started("main")

\* login() without the check for a PIN that has no digit
LoginUnchecked ==
    /\ pc["main"] = "idle"
    /\ ncalls["main"] < MaxSession
    /\ Apply(SendCommand(Begin("main", "login", 0), "main", "login"))
    /\ Started("main")

\* login(): a PIN without a digit is refused before anything is sent
Login ==
    /\ pc["main"] = "idle"
    /\ ncalls["main"] < MaxSession
    /\ LET s == Begin("main", "login", 0) IN
       IF Digits(pin) = <<>> THEN Apply(Finish(s, "main", BoolResult(FALSE)))
       ELSE Apply(SendCommand(s, "main", "login"))
    /\ Started("main")

\* logout()
Logout ==
    /\ pc["main"] = "idle"
    /\ ncalls["main"] < MaxSession
    /\ LET s == Begin("main", "logout", 0) IN
       IF logged_in THEN Apply(SendCommand(s, "main", "logout"))
       ELSE Apply(Finish(s, "main", NoResult))
    /\ Started("main")

\* disconnect()
Disconnect ==
    /\ pc["main"] = "idle"
    /\ ncalls["main"] < MaxSession
    /\ LET s == Begin("main", "disconnect", 0) IN
       IF logged_in THEN Apply(SendCommand(s, "main", "logout"))
       ELSE Apply(DisconnectTail(s, "main"))
    /\ Started("main")

\* disconnect() resumes after the task or the writer it waited for
DisconnectStep ==
    /\ pc["main"] \in {"disc_reader", "disc_keepalive", "disc_close"}
    /\ Apply(CASE pc["main"] = "disc_reader" -> DisconnectKeepalive(Cur, "main")
               [] pc["main"] = "disc_keepalive" -> DisconnectClose(Cur, "main")
               [] pc["main"] = "disc_close" -> DisconnectFinal(Cur, "main"))
    /\ Stepped

\* a waiter of self._lock gets it
LockGranted(p) ==
    /\ pc[p] = "wait_lock"
    /\ lockq # <<>> /\ Head(lockq) = p
    /\ Apply(LockedSend(Cur, p))
    /\ Stepped

\* self._response_queue.get() returns a frame: the lock is released
Response(p) ==
    /\ pc[p] = "wait_resp"
    /\ respq # <<>>
    /\ Apply(Continue([Cur EXCEPT !.respq = Tail(@), !.lockq = Tail(@)], p, Head(respq)))
    /\ Stepped

\* a timeout that returns None and keeps the lock
TimeoutHoldsLock(p) ==
    /\ pc[p] = "wait_resp"
    /\ cmd[p] # "probe"
    /\ respq = <<>>
    /\ Apply(Continue(Cur, p, <<>>))
    /\ Stepped

\* the 5 s wait for a response times out: None, the lock is released
Timeout(p) ==
    /\ pc[p] = "wait_resp"
    /\ cmd[p] # "probe"
    /\ respq = <<>>
    /\ Apply(Continue([Cur EXCEPT !.lockq = Tail(@)], p, <<>>))
    /\ Stepped

\* a probe timeout that leaves the cancelled probe in possession of the lock
ProbeTimeoutHoldsLock ==
    /\ cmd["main"] = "probe"
    /\ \/ pc["main"] = "wait_lock"
       \/ pc["main"] = "wait_resp" /\ respq = <<>>
    /\ Apply(Finish(Cur, "main", BoolResult(TRUE)))
    /\ Stepped

\* connect(): the 3 s wait_for cancels the probe, waiting for the lock or
\* for the response; connect returns True
ProbeTimeout ==
    /\ cmd["main"] = "probe"
    /\ \/ pc["main"] = "wait_lock"
       \/ pc["main"] = "wait_resp" /\ respq = <<>>
    /\ Apply(Finish([Cur EXCEPT !.lockq = SelectSeq(@, LAMBDA q : q # "main")],
                    "main", BoolResult(TRUE)))
    /\ Stepped

(***************************************************************************)
(* The packet reader task: one iteration of its loop.                      *)
(***************************************************************************)
\* frame f, read while the status request of task p awaits its response,
\* carries the status record of the index that p asked for
Matches(p, f) ==
    /\ pc[p] = "wait_resp"
    /\ op[p] \in GetOps
    /\ LET r == IF op[p] = "get_door_status" THEN ParseDoorStatus(f) ELSE ParseAreaStatus(f)
       IN  r.val # <<>> /\ r.val[1].index = arg[p]

\* the loop condition, after an iteration that did not sleep
ReaderNext(conn) == IF conn THEN "run" ELSE "done"

PacketReader(r) ==
    /\ reader_tasks[r] = "run"
    /\ LET rp == ReadPacket(inbox, eof)
           packet == rp.packet
       IN
       /\ ~rp.block
       /\ inbox' = rp.rest
       /\ matched' = [p \in Procs |-> matched[p] \/ Matches(p, packet)]
       /\ IF packet = <<>>
          THEN \* _read_packet returned None: sleep(1), continue
               /\ connected' = (connected /\ ~rp.lost)
               /\ reader_tasks' = [reader_tasks EXCEPT ![r] = "sleep"]
               /\ UNCHANGED <<respq, sent, caches, data_rcvd, calls>>
          ELSE IF At(packet, 4) \in {PACKET_TYPE_SYSTEM, PACKET_TYPE_COMMAND}
          THEN /\ respq' = Append(respq, packet)
               /\ reader_tasks' = [reader_tasks EXCEPT ![r] = ReaderNext(connected)]
               /\ UNCHANGED <<connected, sent, caches, data_rcvd, calls>>
          ELSE IF At(packet, 4) = PACKET_TYPE_DATA
          THEN LET pr == ProcessDataPacket(packet, DispatchState)
               IN
               /\ data_rcvd' = data_rcvd + 1
               /\ calls' = pr.c.calls
               /\ doors' = pr.c.doors
               /\ inputs' = pr.c.inputs
               /\ outputs' = pr.c.outputs
               /\ areas' = pr.c.areas
               /\ IF pr.exc
                  THEN \* except Exception: sleep(1); _send_ack is not reached
                       /\ reader_tasks' = [reader_tasks EXCEPT ![r] = "sleep"]
                       /\ UNCHANGED sent
                  ELSE \* _send_ack; a closed writer raises inside it and is logged
                       /\ sent' = IF writer = "open" THEN Append(sent, AckPacket) ELSE sent
                       /\ Len(sent') <= MaxSent
                       /\ reader_tasks' = [reader_tasks EXCEPT ![r] = ReaderNext(connected)]
               /\ UNCHANGED <<connected, respq>>
          ELSE /\ reader_tasks' = [reader_tasks EXCEPT ![r] = ReaderNext(connected)]
               /\ UNCHANGED <<connected, respq, sent, caches, data_rcvd, calls>>
    /\ UNCHANGED <<logged_in, writer, lockq, eof, pc, op, cmd, arg, resp, result,
                   ncalls, keepalive_tasks, panel_sent,
                   setup, framer>>

\* the reader's sleep(1) ends: the loop condition is evaluated
ReaderWake(r) ==
    /\ reader_tasks[r] = "sleep"
    /\ reader_tasks' = [reader_tasks EXCEPT ![r] = ReaderNext(connected)]
    /\ UNCHANGED <<connected, logged_in, writer, lockq, respq, inbox, eof, sent, pc, op,
                   cmd, arg, resp, result, matched, ncalls, keepalive_tasks,
                   doors, inputs, outputs, areas, panel_sent, data_rcvd,
                   setup, calls, framer>>

(***************************************************************************)
(* The keepalive task: its sleep(30) ends.                                 *)
(***************************************************************************)
\* a keepalive loop that looks at self.connected only
KeepaliveWhileConnected(k) ==
    /\ keepalive_tasks[k] = "sleep"
    /\ IF ~connected
       THEN /\ keepalive_tasks' = [keepalive_tasks EXCEPT ![k] = "done"]
            /\ UNCHANGED <<connected, sent>>
       ELSE \/ \* the frame is written
               /\ writer = "open"
               /\ Len(sent) < MaxSent
               /\ sent' = Append(sent, AreYouTherePacket)
               /\ UNCHANGED <<connected, keepalive_tasks>>
            \/ \* write or drain raises, on a writer that is closed or on a
               \* connection the panel has closed
               /\ connected' = FALSE
               /\ writer # "open" \/ eof
               /\ keepalive_tasks' = [keepalive_tasks EXCEPT ![k] = "done"]
               /\ UNCHANGED sent
    /\ UNCHANGED <<logged_in, writer, lockq, respq, inbox, eof, pc, op, cmd, arg, resp,
                   result, matched, ncalls, reader_tasks, doors, inputs, outputs, areas,
                   panel_sent, data_rcvd, setup, calls, framer>>

\* a keepalive loop that ends on a failed write and leaves self.connected set
KeepaliveFailureIgnored(k) ==
    /\ keepalive_tasks[k] = "sleep"
    /\ IF ~connected \/ ~logged_in
       THEN /\ keepalive_tasks' = [keepalive_tasks EXCEPT ![k] = "done"]
            /\ UNCHANGED <<connected, sent>>
       ELSE \/ \* the frame is written
               /\ writer = "open"
               /\ Len(sent) < MaxSent
               /\ sent' = Append(sent, AreYouTherePacket)
               /\ UNCHANGED <<connected, keepalive_tasks>>
            \/ \* write or drain raises, on a writer that is closed or on a
               \* connection the panel has closed
               /\ UNCHANGED connected
               /\ writer # "open" \/ eof
               /\ keepalive_tasks' = [keepalive_tasks EXCEPT ![k] = "done"]
               /\ UNCHANGED sent
    /\ UNCHANGED <<logged_in, writer, lockq, respq, inbox, eof, pc, op, cmd, arg, resp,
                   result, matched, ncalls, reader_tasks, doors, inputs, outputs, areas,
                   panel_sent, data_rcvd, setup, calls, framer>>

\* _keepalive_loop, from the end of its sleep(30) to the next sleep or the end
Keepalive(k) ==
    /\ keepalive_tasks[k] = "sleep"
    /\ IF ~connected \/ ~logged_in
       THEN /\ keepalive_tasks' = [keepalive_tasks EXCEPT ![k] = "done"]
            /\ UNCHANGED <<connected, sent>>
       ELSE \/ \* the frame is written
               /\ writer = "open"
               /\ Len(sent) < MaxSent
               /\ sent' = Append(sent, AreYouTherePacket)
               /\ UNCHANGED <<connected, keepalive_tasks>>
            \/ \* write or drain raises, on a writer that is closed or on a
               \* connection the panel has closed: self.connected = False, break
               /\ connected' = FALSE
               /\ writer # "open" \/ eof
               /\ keepalive_tasks' = [keepalive_tasks EXCEPT ![k] = "done"]
               /\ UNCHANGED sent
    /\ UNCHANGED <<logged_in, writer, lockq, respq, inbox, eof, pc, op, cmd, arg, resp,
                   result, matched, ncalls, reader_tasks, doors, inputs, outputs, areas,
                   panel_sent, data_rcvd, setup, calls, framer>>

(***************************************************************************)
(* The panel.                                                              *)
(***************************************************************************)
PanelSend(f) ==
    /\ writer = "open" /\ ~eof
    /\ panel_sent < MaxPanel
    /\ panel_sent' = panel_sent + 1
    /\ inbox' = inbox \o f
    /\ UNCHANGED <<connected, logged_in, writer, lockq, respq, eof, sent, pc, op, cmd,
                   arg, resp, result, matched, ncalls, reader_tasks, keepalive_tasks,
                   doors, inputs, outputs, areas, data_rcvd,
                   setup, calls, framer>>

\* the panel closes the connection
PanelClose ==
    /\ writer = "open" /\ ~eof
    /\ eof' = TRUE
    /\ UNCHANGED <<connected, logged_in, writer, lockq, respq, inbox, sent, pc, op, cmd,
                   arg, resp, result, matched, ncalls, reader_tasks, keepalive_tasks,
                   doors, inputs, outputs, areas, panel_sent, data_rcvd,
                   setup, calls, framer>>

Next ==
    \/ \E p \in Callers, i \in Indices : \E o \in CallerOps(p) : Call(p, o, i)
    \/ ncalls["main"] < MaxBusySession /\ Len(reader_tasks) < MaxBusyConn /\ \E opened \in BOOLEAN : Connect(opened)
    \/ ncalls["main"] < MaxBusySession /\ Login
    \/ ncalls["main"] < MaxBusySession /\ Logout
    \/ ncalls["main"] < MaxBusySession /\ Disconnect
    \/ DisconnectStep
    \/ \E p \in Procs : LockGranted(p)
    \/ \E p \in Procs : Response(p)
    \/ \E p \in Procs : Timeout(p)
    \/ ProbeTimeout
    \/ \E r \in DOMAIN reader_tasks : PacketReader(r)
    \/ \E r \in DOMAIN reader_tasks : ReaderWake(r)
    \/ \E k \in DOMAIN keepalive_tasks : Keepalive(k)
    \/ \E f \in PanelFrames : PanelSend(f)
    \/ PanelClose

Spec == Init /\ [][Next]_vars

(***************************************************************************)
(* The session operations alone, for any PIN of the configuration entry.   *)
(***************************************************************************)
\* PINs without a digit: "", "ab", "-"
DigitlessPins == {<<>>, <<97, 98>>, <<45>>}
\* "1234", "1a234567" (seven digits: the seventh is dropped), and the above
Pins == {ValidPin, <<49, 97, 50, 51, 52, 53, 54, 55>>} \cup DigitlessPins

\* the responses of the panel to the session commands
SessionFrames == {AckPacket, NackPacket(ERR_INDEX_NOT_VALID)}

InitSession == pin \in Pins /\ NoFrame /\ Constructed

NextSession ==
    \/ \E opened \in BOOLEAN : Connect(opened)
    \/ Login
    \/ Logout
    \/ Disconnect
    \/ DisconnectStep
    \/ Response("main")
    \/ Timeout("main")
    \/ ProbeTimeout
    \/ \E r \in DOMAIN reader_tasks : PacketReader(r)
    \/ \E r \in DOMAIN reader_tasks : ReaderWake(r)
    \/ \E k \in DOMAIN keepalive_tasks : Keepalive(k)
    \/ \E f \in SessionFrames : PanelSend(f)
    \/ PanelClose

SpecSession == InitSession /\ [][NextSession]_vars

(***************************************************************************)
(* The dispatcher with listeners: the register_*_callback methods, and the *)
(* packet reader on a connection over which the panel pushes DATA frames.  *)
(***************************************************************************)
\* callback in self.door_callbacks, and the like
IsIn(l, cbs) == \E i \in DOMAIN cbs : cbs[i] = l

\* a register_*_callback method that appends without looking
RegisterAlways(class, l) ==
    /\ Len(registered) < MaxRegs
    /\ registered' = Append(registered, <<class, l>>)
    /\ callbacks' = [callbacks EXCEPT ![class] = Append(@, l)]
    /\ UNCHANGED <<connected, logged_in, writer, lockq, respq, inbox, eof, sent, pc, op,
                   cmd, arg, resp, result, matched, ncalls, reader_tasks,
                   keepalive_tasks, doors, inputs, outputs, areas, panel_sent,
                   data_rcvd, pin, calls, framer>>

\* register_door_callback, register_area_callback
Register(class, l) ==
    /\ Len(registered) < MaxRegs
    /\ registered' = Append(registered, <<class, l>>)
    /\ callbacks' = IF IsIn(l, callbacks[class]) THEN callbacks
                    ELSE [callbacks EXCEPT ![class] = Append(@, l)]
    /\ UNCHANGED <<connected, logged_in, writer, lockq, respq, inbox, eof, sent, pc, op,
                   cmd, arg, resp, result, matched, ncalls, reader_tasks,
                   keepalive_tasks, doors, inputs, outputs, areas, panel_sent,
                   data_rcvd, pin, calls, framer>>

\* the classes the entities of the model register for
RegClasses == {"door", "area"}

\* the DATA frames the panel pushes
DispatchFrames == {DoorStatusPacket, DoorClosedPacket, DoorAreaPacket,
                   ShortDoorStatusPacket, UnknownDoorPacket}

NextDispatch ==
    \/ \E class \in RegClasses, l \in Listeners : Register(class, l)
    \/ ncalls["main"] < MaxBusySession /\ Len(reader_tasks) < MaxBusyConn /\ \E opened \in BOOLEAN : Connect(opened)
    \/ ProbeTimeout
    \/ \E r \in DOMAIN reader_tasks : PacketReader(r)
    \/ \E r \in DOMAIN reader_tasks : ReaderWake(r)
    \/ \E f \in DispatchFrames : PanelSend(f)

SpecDispatch == Init /\ [][NextDispatch]_vars

(***************************************************************************)
(* The packet reader on a wire that carries damaged frames too.            *)
(***************************************************************************)
\* frame f with its checksum byte off by one
BadChecksum(f) == [f EXCEPT ![Len(f)] = (@ + 1) % 256]

\* an ACK frame whose magic is "XY"
BadMagicPacket == <<88, 89>> \o Slice(AckPacket, 2, Len(AckPacket))

\* the first five bytes of a frame that gives its length as 5, and as 1025
ShortLengthPacket == <<73, 67>> \o PackH(5) \o <<PACKET_TYPE_SYSTEM>>
LongLengthPacket == <<73, 67>> \o PackH(1025) \o <<PACKET_TYPE_SYSTEM>>

WireFrames == {AckPacket, DoorStatusPacket,
               BadMagicPacket, ShortLengthPacket, LongLengthPacket,
               BadChecksum(AckPacket), BadChecksum(DoorStatusPacket)}

NextWire ==
    \/ Len(reader_tasks) < MaxBusyConn /\ \E opened \in BOOLEAN : Connect(opened)
    \/ Response("main")
    \/ ProbeTimeout
    \/ \E r \in DOMAIN reader_tasks : PacketReader(r)
    \/ \E r \in DOMAIN reader_tasks : ReaderWake(r)
    \/ \E f \in WireFrames : PanelSend(f)
    \/ PanelClose

SpecWire == Init /\ [][NextWire]_vars

(***************************************************************************)
(* The entity caches: the packet reader on a connection over which the     *)
(* panel pushes status records of the four classes, whole and cut short,   *)
(* with one door listener.                                                 *)
(***************************************************************************)
\* the reference of an input or an output: "ZONE0001"
Reference == <<90, 79, 78, 69, 48, 48, 48, 49>>

\* a DATA frame with a record of each class: door 300 (locked, open), input 5
\* (open, bypassed with bit 1 set too), output 5 (on), area 2 (armed, in alarm)
AllStatusPacket ==
    CreatePacket(PACKET_TYPE_DATA,
                 Tlv(DATA_TYPE_DOOR_STATUS, PackI(300) \o <<1, 2, 0, 0>>)
                 \o Tlv(DATA_TYPE_INPUT_STATUS, PackI(5) \o Reference \o <<1, 3>>)
                 \o Tlv(DATA_TYPE_OUTPUT_STATUS, PackI(5) \o Reference \o <<2>>)
                 \o Tlv(DATA_TYPE_AREA_STATUS, PackI(2) \o <<128, 0, 1, 0>>)
                 \o PackH(DATA_TYPE_END))

\* a DATA frame that ends inside its only record: the status of door 7
\* (locked) is declared with 8 bytes of data, of which the payload holds the
\* first n; the checksum trailer is the next byte of the frame
TruncatedDoor(n) ==
    CreatePacket(PACKET_TYPE_DATA,
                 PackH(DATA_TYPE_DOOR_STATUS) \o <<8>>
                 \o Slice(PackI(7) \o <<1, 2, 0, 0>>, 0, n))

\* the payload ends behind the lock state, and behind half of the index
TruncatedFrames == {TruncatedDoor(5), TruncatedDoor(2)}

\* the DATA frames the panel pushes: doors 5 and 300, input 5, output 5 and
\* area 2 in the states around those the derived flags tell apart
CacheFrames ==
    {DataPacket(DATA_TYPE_DOOR_STATUS, PackI(i) \o <<l, d, 0, 0>>) :
         i \in {5, 300}, l \in {1, 2}, d \in {0, 1}}
        \cup {DataPacket(DATA_TYPE_INPUT_STATUS, PackI(5) \o Reference \o <<st, b>>) :
                  st \in {1, 2}, b \in {0, 1, 2, 3}}
        \cup {DataPacket(DATA_TYPE_OUTPUT_STATUS, PackI(5) \o Reference \o <<st>>) :
                  st \in {0, 1, 2}}
        \cup {DataPacket(DATA_TYPE_AREA_STATUS, PackI(2) \o <<st, 0, fl, 0>>) :
                  st \in {127, 128, 129}, fl \in {1, 2}}
        \cup {AllStatusPacket} \cup TruncatedFrames

NextCache ==
    \/ Register("door", "l1")
    \/ Len(reader_tasks) < MaxBusyConn /\ \E opened \in BOOLEAN : Connect(opened)
    \/ ProbeTimeout
    \/ \E r \in DOMAIN reader_tasks : PacketReader(r)
    \/ \E r \in DOMAIN reader_tasks : ReaderWake(r)
    \/ \E f \in CacheFrames : PanelSend(f)

SpecCache == Init /\ [][NextCache]_vars

(***************************************************************************)
(* The session on one connection to a panel that answers: every frame the  *)
(* panel sends is its reply, an ACK or a NACK, to the next COMMAND frame   *)
(* it has received and not answered yet, in the order of their arrival.    *)
(***************************************************************************)
\* the COMMAND frames the client has written, in order
Commands(frames) == SelectSeq(frames, LAMBDA f : At(f, 4) = PACKET_TYPE_COMMAND)

\* the panel answers the oldest command it has not answered
PanelReply(f) ==
    /\ writer = "open" /\ ~eof
    /\ panel_sent < Len(Commands(sent))
    /\ panel_sent' = panel_sent + 1
    /\ inbox' = inbox \o f
    /\ UNCHANGED <<connected, logged_in, writer, lockq, respq, eof, sent, pc, op, cmd,
                   arg, resp, result, matched, ncalls, reader_tasks, keepalive_tasks,
                   doors, inputs, outputs, areas, data_rcvd,
                   setup, calls, framer>>

NextPanel ==
    \/ reader_tasks = <<>> /\ \E opened \in BOOLEAN : Connect(opened)
    \/ Login
    \/ \E i \in Indices : Call("c1", "unlock_door", i)
    \/ \E p \in {"main", "c1"} : LockGranted(p)
    \/ \E p \in {"main", "c1"} : Response(p)
    \/ \E p \in {"main", "c1"} : Timeout(p)
    \/ ProbeTimeout
    \/ \E r \in DOMAIN reader_tasks : PacketReader(r)
    \/ \E k \in DOMAIN keepalive_tasks : Keepalive(k)
    \/ \E f \in SessionFrames : PanelReply(f)

SpecPanel == Init /\ [][NextPanel]_vars

(***************************************************************************)
(* The callers under the event loop's scheduling: a task that can run is   *)
(* run.  A waiter that self._lock was handed to resumes, and               *)
(* wait_for(self._response_queue.get(), 5.0) ends, with a frame or with    *)
(* the timeout, as does the wait_for of connect(): as long as one of these *)
(* steps is possible, one of them is taken.  Nothing is assumed of the     *)
(* panel or of the reader.                                                 *)
(***************************************************************************)
NextLive ==
    \/ \E p \in Callers, i \in Indices : \E o \in CallerOps(p) : Call(p, o, i)
    \/ Len(reader_tasks) < MaxBusyConn /\ \E opened \in BOOLEAN : Connect(opened)
    \/ \E p \in Procs : LockGranted(p)
    \/ \E p \in Procs : Response(p)
    \/ \E p \in Procs : Timeout(p)
    \/ ProbeTimeout
    \/ \E r \in DOMAIN reader_tasks : PacketReader(r)
    \/ \E r \in DOMAIN reader_tasks : ReaderWake(r)
    \/ \E f \in SessionFrames : PanelSend(f)
    \/ PanelClose

\* a task resumes from self._lock.acquire() or from a wait_for
Resume ==
    \/ \E p \in Procs : Response(p)
    \/ \E p \in Procs : Timeout(p)
    \/ ProbeTimeout
    \/ \E p \in Procs : LockGranted(p)

Scheduling == WF_vars(Resume)

SpecLive == Init /\ [][NextLive]_vars /\ Scheduling

\* the holder of the lock is the task that awaits a response
TypeOK ==
    /\ \A p \in Procs : pc[p] = "wait_resp" => (lockq # <<>> /\ Head(lockq) = p)
    /\ Len(sent) <= MaxSent

(***************************************************************************)
(* The framer alone: _create_packet is applied to a packet type and a      *)
(* payload, then _read_packet to a stream that begins with the frame.      *)
(***************************************************************************)
PacketTypes == {PACKET_TYPE_COMMAND, PACKET_TYPE_SYSTEM, PACKET_TYPE_DATA, 73, 255}
PayloadBytes == {0, 73, 255}

RECURSIVE ByteStrings(_)
ByteStrings(n) ==
    IF n = 0 THEN {<<>>}
    ELSE LET shorter == ByteStrings(n - 1)
         IN  shorter \cup {Append(d, b) : d \in {x \in shorter : Len(x) = n - 1},
                                          b \in PayloadBytes}

Payloads ==
    ByteStrings(MaxPayload)
        \cup {[i \in 1..n |-> b] : n \in {MaxData - 1, MaxData}, b \in {0, 255}}

\* what is on the stream behind the frame
Following == {<<>>, <<73>>, <<73, 67, 9, 0>>}

InitFrame ==
    /\ pin = ValidPin
    /\ enc_type \in PacketTypes
    /\ enc_data \in Payloads
    /\ Constructed

CreateFrame ==
    /\ enc_packet = <<>>
    /\ enc_packet' = CreatePacket(enc_type, enc_data)
    /\ UNCHANGED <<client, enc_type, enc_data, dec_result>>

ReadFrame(more, at_eof) ==
    /\ enc_packet # <<>>
    /\ dec_result = <<>>
    /\ dec_result' = << [more |-> more, read |-> ReadPacket(enc_packet \o more, at_eof)] >>
    /\ UNCHANGED <<client, enc_type, enc_data, enc_packet>>

NextFrame ==
    \/ CreateFrame
    \/ \E more \in Following, at_eof \in BOOLEAN : ReadFrame(more, at_eof)

SpecFrame == InitFrame /\ [][NextFrame]_vars

(***************************************************************************)
(* Properties.                                                             *)
(***************************************************************************)
Last(q) == q[Len(q)]

\* the number of frames of `sent` that are ACK frames
RECURSIVE AckCount(_)
AckCount(q) == IF q = <<>> THEN 0
               ELSE (IF Head(q) = AckPacket THEN 1 ELSE 0) + AckCount(Tail(q))

\* this step is one iteration of a packet reader that decoded a DATA frame
ReaderDecodesData == data_rcvd' = data_rcvd + 1

\* the NACK of a status request for an index the panel does not have
IndexNotValid == NackPacket(ERR_INDEX_NOT_VALID)

\* C1: two invocations of _send_packet never both have their COMMAND written
\* and unanswered: the task that awaits a response holds the lock, and a
\* second task's COMMAND is written only after the first got its response or
\* timed out.
C1_MutualExclusion ==
    \A p \in Procs :
        pc[p] = "wait_resp" =>
            /\ lockq # <<>> /\ Head(lockq) = p
            /\ \A q \in Procs \ {p} : pc[q] # "wait_resp"

\* C1 witness: one caller's COMMAND is on the wire and awaits its response
\* while the other caller, already invoked, waits for the lock unwritten.
C1_Witness ==
    /\ pc["c1"] = "wait_resp" /\ pc["c2"] = "wait_lock"
    /\ Last(sent) = PacketOf(cmd["c1"], arg["c1"])
    /\ \A i \in DOMAIN sent : sent[i] # PacketOf(cmd["c2"], arg["c2"])

\* C2: every DATA frame the packet reader has decoded has been answered by
\* exactly one ACK frame (written in the same step, so before any later
\* COMMAND).
C2_AckObligation == AckCount(sent) = data_rcvd

\* C3: the step in which the reader decodes a DATA frame whose status record
\* cannot be parsed writes one ACK and leaves the session connected.
C3_UnparsableDataAcked ==
    [][ (ReaderDecodesData
         /\ ProcessDataPacket(ReadPacket(inbox, eof).packet, DispatchState).exc)
        => (sent' = Append(sent, AckPacket) /\ connected' = connected) ]_vars

\* C4: a typed action command that returned success had an ACK for response.
C4_SuccessOnlyOnAck ==
    \A p \in Callers :
        (pc[p] = "idle" /\ op[p] \in ActionOps /\ result[p].ok) => IsAck(resp[p])

\* C5: a status request during which the client received a frame carrying
\* the status record of the requested index returned that entity, not None.
C5_StatusReturned ==
    \A p \in Callers :
        (pc[p] = "idle" /\ op[p] \in GetOps /\ matched[p]) => result[p].val # <<>>

\* C6: the step in which a status request receives the NACK 0x0121 returns
\* None and changes neither connected, logged_in nor any entity cache.
C6_IndexNotValidReturnsNone ==
    [][ \A p \in Callers :
          (pc[p] = "wait_resp" /\ op[p] \in GetOps /\ pc'[p] = "idle"
           /\ resp'[p] = IndexNotValid)
          => /\ result'[p].val = <<>> /\ ~result'[p].exc
             /\ connected' = connected /\ logged_in' = logged_in
             /\ caches' = caches ]_vars

\* C6 witness: on a connected, logged-in session a status request has
\* returned from the NACK 0x0121.
C6_Witness ==
    /\ pc["c2"] = "idle" /\ op["c2"] \in GetOps /\ resp["c2"] = IndexNotValid
    /\ connected /\ logged_in

\* C7: a status request that returned None had the NACK 0x0121 for response.
C7_NoneOnlyOnIndexNotValid ==
    \A p \in Callers :
        (pc[p] = "idle" /\ op[p] \in GetOps /\ result[p].val = <<>> /\ ~result[p].exc)
        => resp[p] = IndexNotValid

\* C8: a COMMAND frame written while the session is not logged in is the
\* are-you-there probe or the login command.
C8_NoCommandBeforeLogin ==
    [][ (Len(sent') = Len(sent) + 1 /\ ~logged_in /\ ~logged_in'
         /\ At(Last(sent'), 4) = PACKET_TYPE_COMMAND)
        => Last(sent') \in {AreYouTherePacket, LoginPacket(Pin)} ]_vars

\* C9: is_connected() is true after the step in which login receives the
\* ACK of its login command on a connected session; it is false after the
\* step in which logout returns, in which disconnect returns, and in which a
\* packet reader finds the stream at its end.
C9_IsConnected ==
    [][ /\ (/\ pc["main"] = "wait_resp" /\ op["main"] = "login" /\ cmd["main"] = "login"
            /\ respq # <<>> /\ IsAck(Head(respq))
            /\ <<pc["main"], cmd["main"]>>' # <<pc["main"], cmd["main"]>>
            /\ connected)
           => IsConnected'
        /\ (/\ op'["main"] \in {"logout", "disconnect"} /\ pc'["main"] = "idle"
            /\ (pc["main"] # "idle" \/ ncalls'["main"] # ncalls["main"]))
           => ~IsConnected'
        /\ (\E r \in DOMAIN reader_tasks :
               /\ r \in DOMAIN reader_tasks'
               /\ reader_tasks[r] = "run" /\ reader_tasks'[r] = "sleep"
               /\ eof /\ inbox = <<>>)
           => ~IsConnected' ]_vars

\* C9 witness: after a connect and a login that succeeded, logout has
\* returned on the still connected session.
C9_Witness ==
    /\ op["main"] = "logout" /\ pc["main"] = "idle"
    /\ keepalive_tasks # <<>> /\ connected /\ ~IsConnected

\* C10: SET_LOGIN_TIME(600) is written by login on the ACK of its login
\* command, with logged_in set; ACK_CONFIG is written by login only once the
\* SET_LOGIN_TIME round has ended; a keepalive task is created only in the
\* step in which login, past its ACK_CONFIG call, returns True; and a login
\* that returned True on a session still connected has written LOGIN,
\* SET_LOGIN_TIME, ACK_CONFIG in this order.  (On a session marked
\* disconnected _send_packet returns None at once, so both rounds end
\* without a write.)
C10_Step ==
    /\ (Len(sent') = Len(sent) + 1 /\ Last(sent') = SetLoginTimePacket)
       => /\ logged_in'
          /\ op["main"] = "login"
          /\ \/ cmd["main"] = "login" /\ pc["main"] = "wait_resp"
                /\ respq # <<>> /\ IsAck(Head(respq))
             \/ cmd["main"] = "set_login_time" /\ pc["main"] = "wait_lock"
    /\ (Len(sent') = Len(sent) + 1 /\ Last(sent') = ConfigureAckPacket)
       => /\ op["main"] = "login"
          /\ \/ cmd["main"] = "set_login_time" /\ pc["main"] = "wait_resp"
             \/ cmd["main"] = "configure_ack" /\ pc["main"] = "wait_lock"
    /\ (Len(keepalive_tasks') > Len(keepalive_tasks))
       => /\ op["main"] = "login" /\ cmd'["main"] = "configure_ack"
          /\ pc["main"] # "idle" /\ pc'["main"] = "idle"
          /\ result'["main"].ok /\ logged_in'
    /\ (op'["main"] = "login" /\ pc["main"] # "idle" /\ pc'["main"] = "idle"
        /\ result'["main"].ok)
       => /\ Len(keepalive_tasks') = Len(keepalive_tasks) + 1
          /\ (connected'
              => \E i, j, k \in DOMAIN sent' :
                    /\ i < j /\ j < k
                    /\ sent'[i] = LoginPacket(Pin)
                    /\ sent'[j] = SetLoginTimePacket
                    /\ sent'[k] = ConfigureAckPacket)

C10_LoginSequence == [][C10_Step]_vars

\* C10 witness: login has returned True and the three commands are on the wire.
C10_Witness ==
    /\ op["main"] = "login" /\ pc["main"] = "idle" /\ result["main"].ok
    /\ keepalive_tasks # <<>>
    /\ \E j \in DOMAIN sent : sent[j] = SetLoginTimePacket
    /\ Last(sent) = ConfigureAckPacket

\* the NACK frames the panel sends
Nacks == {NackPacket(ERR_INDEX_NOT_VALID), NackPacket(ERR_DOOR_ALREADY_IN_STATE)}

\* C11: the step in which login, on a session not logged in, receives a NACK
\* for its login command returns False, leaves connected unchanged and the
\* session not logged in, writes no frame (so neither SET_LOGIN_TIME nor
\* ACK_CONFIG) and creates no keepalive task.
C11_LoginNack ==
    [][ (/\ pc["main"] = "wait_resp" /\ op["main"] = "login" /\ cmd["main"] = "login"
         /\ respq # <<>> /\ Head(respq) \in Nacks
         /\ ~logged_in
         /\ pc'["main"] # pc["main"])
        => /\ pc'["main"] = "idle" /\ ~result'["main"].ok
           /\ connected' = connected /\ ~logged_in'
           /\ sent' = sent
           /\ keepalive_tasks' = keepalive_tasks ]_vars

\* C11 witness: on a connected session login has returned False from a NACK;
\* the session is not logged in, has no keepalive task, and its last frame
\* written is the login command.
C11_Witness ==
    /\ op["main"] = "login" /\ pc["main"] = "idle" /\ resp["main"] \in Nacks
    /\ ~result["main"].ok
    /\ connected /\ ~logged_in /\ keepalive_tasks = <<>>
    /\ Last(sent) = LoginPacket(Pin)

\* C12: the step in which login is called with a PIN that has no digit
\* returns False at once, writes nothing to the socket, and leaves
\* connected, logged_in, the lock and the reader and keepalive tasks as
\* they were.
C12_DigitlessPinRejected ==
    [][ (/\ pin \in DigitlessPins
         /\ op'["main"] = "login" /\ ncalls'["main"] = ncalls["main"] + 1)
        => /\ pc'["main"] = "idle" /\ ~result'["main"].ok
           /\ sent' = sent /\ lockq' = lockq
           /\ connected' = connected /\ logged_in' = logged_in
           /\ reader_tasks' = reader_tasks
           /\ keepalive_tasks' = keepalive_tasks ]_vars

\* C12 witness: on a connected session with a running reader, login with a
\* PIN without a digit has returned False; only the probe was ever written.
C12_Witness ==
    /\ pin \in DigitlessPins
    /\ op["main"] = "login" /\ pc["main"] = "idle" /\ ~result["main"].ok
    /\ connected /\ writer = "open" /\ Alive(reader_tasks)
    /\ sent = <<AreYouTherePacket>>

\* C13: the step in which the 5 s wait of _send_packet times out hands None
\* to the calling method and releases the lock (the task leaves the head of
\* the lock's queue; a method that sends a further command joins the queue
\* at its end).  connected, the writer and the reader tasks are unchanged
\* (unless the method is disconnect, which goes on to stop them) and so is
\* logged_in (unless the method is logout or disconnect, which clear it);
\* a typed command or status request returns False or None.
C13_Timeout ==
    [][ \A p \in Procs :
          (/\ pc[p] = "wait_resp" /\ cmd[p] # "probe" /\ respq = <<>>
           /\ <<pc[p], cmd[p]>>' # <<pc[p], cmd[p]>>)
          => /\ resp'[p] = <<>>
             /\ lockq' \in {Tail(lockq), Append(Tail(lockq), p)}
             /\ (pc'[p] = "idle" => lockq' = Tail(lockq))
             /\ (op[p] # "disconnect"
                 => /\ connected' = connected /\ writer' = writer
                    /\ reader_tasks' = reader_tasks)
             /\ (op[p] \notin {"logout", "disconnect"} => logged_in' = logged_in)
             /\ (op[p] \in ActionOps \cup GetOps
                 => pc'[p] = "idle" /\ ~result'[p].ok /\ result'[p].val = <<>>) ]_vars

\* C13 witness: the command of caller c1 was written and timed out; the
\* session is still connected with its reader alive, and caller c2 has
\* written its command after it.
C13_Witness ==
    /\ pc["c1"] = "idle" /\ op["c1"] \in ActionOps /\ resp["c1"] = <<>>
    /\ connected /\ Alive(reader_tasks)
    /\ pc["c2"] = "wait_resp"
    /\ \E i, j \in DOMAIN sent :
          i < j /\ sent[i] = PacketOf(cmd["c1"], arg["c1"])
                /\ sent[j] = PacketOf(cmd["c2"], arg["c2"])

\* the status records that the frames pushed by the panel carry, in order:
\* class, index and the record as the dispatcher must store it
DoorOpen5 == [index |-> 5, lock_state |-> 1, door_state |-> 2,
              is_locked |-> (1 = DOOR_LOCKED), is_open |-> (2 # DOOR_STATE_CLOSED)]
DoorClosed5 == [index |-> 5, lock_state |-> 0, door_state |-> 0,
                is_locked |-> (0 = DOOR_LOCKED), is_open |-> (0 # DOOR_STATE_CLOSED)]
Area2 == [index |-> 2, state |-> 128, tamper_state |-> 0, flags |-> 0,
          is_armed |-> (128 >= AREA_ARMED), alarm_active |-> FALSE]

RecordsOf(f) ==
    CASE f = DoorStatusPacket -> <<[class |-> "door", rec |-> DoorOpen5]>>
      [] f = DoorClosedPacket -> <<[class |-> "door", rec |-> DoorClosed5]>>
      [] f = DoorAreaPacket   -> <<[class |-> "door", rec |-> DoorOpen5],
                                   [class |-> "area", rec |-> Area2]>>
      [] OTHER                -> <<>>

\* the invocations of the listeners cbs, in order, for a record found cached
RECURSIVE InvocationsOf(_, _, _)
InvocationsOf(cbs, class, index) ==
    IF cbs = <<>> THEN <<>>
    ELSE <<[class |-> class, listener |-> Head(cbs), index |-> index, cached |-> TRUE]>>
         \o InvocationsOf(Tail(cbs), class, index)

\* the invocations due for the records rs, record by record
RECURSIVE Due(_)
Due(rs) ==
    IF rs = <<>> THEN <<>>
    ELSE InvocationsOf(callbacks[Head(rs).class], Head(rs).class, Head(rs).rec.index)
         \o Due(Tail(rs))

\* the frame that a packet reader decodes in this step
Decoded == ReadPacket(inbox, eof).packet

\* C14: the step in which the packet reader decodes a DATA frame stores
\* every status record of the frame in the cache of its class under the
\* record's index, and invokes, record by record, every listener registered
\* for the class exactly once, in registration order, each finding the
\* record already in the cache.
C14_CacheThenListeners ==
    [][ (ReaderDecodesData /\ RecordsOf(Decoded) # <<>>)
        => /\ calls' = calls \o Due(RecordsOf(Decoded))
           /\ \A i \in DOMAIN RecordsOf(Decoded) :
                 LET r == RecordsOf(Decoded)[i] IN
                 /\ r.class = "door" => /\ r.rec.index \in DOMAIN doors'
                                         /\ doors'[r.rec.index] = r.rec
                 /\ r.class = "area" => /\ r.rec.index \in DOMAIN areas'
                                         /\ areas'[r.rec.index] = r.rec ]_vars

\* the callables registered for a class in the history regs, each at the
\* place of its first registration
RECURSIVE FirstRegistrations(_, _, _)
FirstRegistrations(regs, class, seen) ==
    IF regs = <<>> THEN <<>>
    ELSE LET l == Head(regs)[2] IN
         IF Head(regs)[1] = class /\ l \notin seen
         THEN <<l>> \o FirstRegistrations(Tail(regs), class, seen \cup {l})
         ELSE FirstRegistrations(Tail(regs), class, seen)

\* C15: after any register_*_callback calls the listener list of every
\* class holds each callable registered for it once, at the place of its
\* first registration; and the invocations made for a frame of one status
\* record follow that list from its start, each callable at most once,
\* reaching its end unless a listener raised.
C15_Step ==
    /\ \A class \in Classes :
          callbacks'[class] = FirstRegistrations(registered', class, {})
    /\ (ReaderDecodesData /\ Len(RecordsOf(Decoded)) = 1)
       => LET r == RecordsOf(Decoded)[1]
              full == InvocationsOf(FirstRegistrations(registered, r.class, {}),
                                    r.class, r.rec.index)
          IN  \E n \in 0..Len(full) :
                 /\ calls' = calls \o SubSeq(full, 1, n)
                 /\ n < Len(full) => (n > 0 /\ Raises(full[n].listener))

C15_IdempotentRegistration == [][C15_Step]_vars

\* C15 witness: l1 was registered for doors, then l2, then l1 again; the
\* list is l1, l2, and a door record has been dispatched to l1 and then l2,
\* once each.
C15_Witness ==
    /\ registered = << <<"door", "l1">>, <<"door", "l2">>, <<"door", "l1">> >>
    /\ callbacks["door"] = <<"l1", "l2">>
    /\ calls = InvocationsOf(<<"l1", "l2">>, "door", 5)

\* C16: once the session is marked lost (a packet reader found the stream
\* at its end, or disconnect ran), no task is left awaiting the response of
\* a command: the waiters have been woken and failed.
C16_NoWaiterOnLostSession ==
    ~connected => \A p \in Procs : pc[p] # "wait_resp"

\* this step is one wake-up of a keepalive task: it writes a frame or ends
\* a task, and is neither a step of an API method nor of a packet reader
KeepaliveWakes ==
    /\ pc' = pc /\ cmd' = cmd /\ resp' = resp /\ data_rcvd' = data_rcvd
    /\ sent' # sent \/ keepalive_tasks' # keepalive_tasks

\* C17: a keepalive task that wakes on a session connected and logged in
\* writes one are-you-there COMMAND and stays running (unless the write
\* fails, on a closed writer or a connection the panel has closed), touching
\* neither the lock nor the response queue, whoever holds the lock; one that
\* wakes on a session no longer connected or no longer logged in writes
\* nothing and ends.
C17_Keepalive ==
    [][ KeepaliveWakes
        => /\ lockq' = lockq /\ respq' = respq
           /\ IF connected /\ logged_in
              THEN \/ /\ sent' = Append(sent, AreYouTherePacket)
                      /\ keepalive_tasks' = keepalive_tasks
                   \/ \* the write failed
                      /\ writer # "open" \/ eof
                      /\ sent' = sent
                      /\ keepalive_tasks' # keepalive_tasks
              ELSE /\ sent' = sent
                   /\ \E k \in DOMAIN keepalive_tasks :
                         /\ keepalive_tasks[k] = "sleep"
                         /\ keepalive_tasks' = [keepalive_tasks EXCEPT ![k] = "done"] ]_vars

\* C17 witness: caller c1 holds the lock and awaits its response, and the
\* keepalive task, still running, has written its are-you-there after c1's
\* command.
C17_Witness ==
    /\ pc["c1"] = "wait_resp" /\ lockq # <<>> /\ Head(lockq) = "c1"
    /\ connected /\ logged_in /\ Alive(keepalive_tasks)
    /\ Len(sent) >= 2
    /\ Last(sent) = AreYouTherePacket
    /\ sent[Len(sent) - 1] = PacketOf(cmd["c1"], arg["c1"])

(***************************************************************************)
(* C18: once disconnect() has returned, no packet reader task and no       *)
(* keepalive task is running, the writer has been closed, connected and    *)
(* logged_in are false and is_connected() is false.                        *)
(***************************************************************************)
DisconnectReturned == op["main"] = "disconnect" /\ pc["main"] = "idle"

Running(tasks) == {t \in DOMAIN tasks : tasks[t] # "done"}

C18_AfterDisconnect ==
    DisconnectReturned =>
        /\ Running(reader_tasks) = {}
        /\ Running(keepalive_tasks) = {}
        /\ writer # "open"
        /\ ~connected /\ ~logged_in /\ ~IsConnected

(***************************************************************************)
(* C19: connect() returns True whenever the TCP connection opened, also    *)
(* when the probe is never answered: the probe is given up, the lock it    *)
(* held is free again, connected is not touched (and is true unless the    *)
(* panel closed the connection meanwhile).  When the open fails, connect   *)
(* returns False at once, connected is false, no reader task is created    *)
(* and nothing is written.                                                 *)
(***************************************************************************)
ConnectStarts ==
    pc["main"] = "idle" /\ op'["main"] = "connect" /\ ncalls'["main"] # ncalls["main"]

ConnectReturns ==
    /\ op'["main"] = "connect" /\ pc'["main"] = "idle"
    /\ pc["main"] # "idle" \/ ConnectStarts

C19_Step ==
    /\ (ConnectStarts /\ pc'["main"] # "idle") =>
          /\ connected' /\ writer' = "open"
          /\ reader_tasks' = Append(reader_tasks, "run")
          /\ cmd'["main"] = "probe"
    /\ (ConnectReturns /\ result'["main"].ok) =>
          /\ pc["main"] \in {"wait_lock", "wait_resp"}
          /\ \A i \in DOMAIN lockq' : lockq'[i] # "main"
          /\ connected' = connected
          /\ ~eof' => connected'
          /\ writer' = "open"
    /\ (ConnectReturns /\ ~result'["main"].ok) =>
          /\ ConnectStarts
          /\ ~connected'
          /\ reader_tasks' = reader_tasks
          /\ sent' = sent

C19_Connect == [][C19_Step]_vars

\* the probe was never answered, connect returned True, and the login that
\* followed has been written under the lock
C19_Witness ==
    /\ panel_sent = 0
    /\ Len(reader_tasks) = 1
    /\ connected
    /\ op["main"] = "login" /\ pc["main"] = "wait_resp"
    /\ lockq = <<"main">>
    /\ sent = <<AreYouTherePacket, LoginPacket(Digits(pin))>>

(***************************************************************************)
(* C20: frame round trip.  _read_packet, given a stream that begins with   *)
(* the frame _create_packet made of a packet type and a payload, returns   *)
(* that frame and nothing else, leaves what followed it on the stream,     *)
(* byte 4 of it is the packet type, bytes 6 up to the trailer are the      *)
(* payload, and its length field is its byte count.                        *)
(***************************************************************************)
RoundTrip(d) ==
    LET f == d.read.packet IN
    /\ ~d.read.block /\ ~d.read.lost
    /\ f = enc_packet
    /\ d.read.rest = d.more
    /\ At(f, 4) = enc_type
    /\ Slice(f, 6, Len(f) - 1) = enc_data
    /\ UnpackH(Slice(f, 2, 4)) = Len(f)

WritesCommand ==
    Len(sent') = Len(sent) + 1 /\ At(Last(sent'), 4) = PACKET_TYPE_COMMAND

Outstanding(p) ==
    pc[p] = "wait_resp" /\ pc'[p] = "wait_resp" /\ cmd'[p] = cmd[p]

C21_OneOutstandingCommand ==
    [][WritesCommand => \A p \in Procs : ~Outstanding(p)]_vars

(***************************************************************************)
(* C22: a frame that is on the response queue when a task writes its       *)
(* COMMAND is dropped, not returned: the queue is empty after every step   *)
(* that writes the command of a task, and what _send_packet returns to a   *)
(* task is the frame at the head of the queue, put there since then.       *)
(***************************************************************************)
\* this step writes a command of task p, which then awaits the response
CommandWrittenBy(p) ==
    /\ sent' # sent
    /\ pc'[p] = "wait_resp"
    /\ <<pc[p], cmd[p]>> # <<pc'[p], cmd'[p]>>

\* this step hands a frame to task p as the response to its command
Returned(p) == pc[p] = "wait_resp" /\ resp'[p] # <<>> /\ resp'[p] # resp[p]

C22_Step ==
    \A p \in Procs :
        /\ CommandWrittenBy(p) => respq' = <<>>
        /\ Returned(p) => respq # <<>> /\ resp'[p] = Head(respq)

C22_StaleResponseDropped == [][C22_Step]_vars

\* c1's command timed out, the panel's late reply was put on the queue, and
\* c2's command has been written: the reply is gone, c2 still waits
C22_Witness ==
    /\ pc["c1"] = "idle" /\ ncalls["c1"] = 1 /\ resp["c1"] = <<>>
    /\ resp["main"] = <<>>
    /\ pc["c2"] = "wait_resp"
    /\ Len(sent) >= 2
    /\ Last(sent) = PacketOf(cmd["c2"], arg["c2"])
    /\ sent[Len(sent) - 1] = PacketOf(cmd["c1"], arg["c1"])
    /\ panel_sent = 1 /\ inbox = <<>> /\ data_rcvd = 0
    /\ respq = <<>>

(***************************************************************************)
(* C23: DATA frames are acknowledged in the order of their arrival, and    *)
(* the ACK of a DATA frame that arrived before a response frame is on the  *)
(* socket before that response is returned.  The reader handles one frame  *)
(* after the other, so the claim is that when it puts a response frame on  *)
(* the queue, every DATA frame it has decoded before has its ACK written.  *)
(***************************************************************************)
ResponseEnqueued == Len(respq') = Len(respq) + 1

C23_AckBeforeResponse ==
    [][ResponseEnqueued => AckCount(sent) = data_rcvd]_vars

(***************************************************************************)
(* C24: a framing error is fatal for the socket.  When the packet reader   *)
(* reads a prolog whose magic is not "IC" or whose length is below 6 or    *)
(* above 1024, nothing is put on the response queue or handed to the       *)
(* dispatcher, and the session is marked lost (connected is false), which  *)
(* ends the reader's loop before it reads again.                           *)
(***************************************************************************)
\* the reader's _read_packet has taken bytes off the stream in this step
\* (no task of the API moves: it is not connect() replacing the stream)
ReaderReads == Len(inbox') < Len(inbox) /\ pc' = pc

\* the stream begins with a prolog that is a framing error
FramingError(stream) ==
    \/ Len(stream) >= 2 /\ Slice(stream, 0, 2) # <<73, 67>>
    \/ /\ Len(stream) >= 4 /\ Slice(stream, 0, 2) = <<73, 67>>
       /\ LET length == UnpackH(Slice(stream, 2, 4)) IN length < 6 \/ length > 1024

NotDelivered ==
    /\ respq' = respq
    /\ data_rcvd' = data_rcvd
    /\ UNCHANGED <<caches, calls>>

C24_FramingErrorFatal ==
    [][(ReaderReads /\ FramingError(inbox)) => (NotDelivered /\ ~connected')]_vars

(***************************************************************************)
(* C25: a received frame whose last byte is not the sum of the bytes       *)
(* before it modulo 256 is rejected: it is not put on the response queue   *)
(* and not handed to the dispatcher, no cache changes, and the session is  *)
(* marked lost.                                                            *)
(***************************************************************************)
ChecksumMismatch(f) ==
    f # <<>> /\ Last(f) # SumBytes(SubSeq(f, 1, Len(f) - 1)) % 256

C25_ChecksumError ==
    [][(ReaderReads /\ ChecksumMismatch(ReadPacket(inbox, eof).packet))
          => (NotDelivered /\ ~connected')]_vars

(***************************************************************************)
(* C26: disconnect() logs out if logged in, then cancels the keepalive     *)
(* task, then the packet reader task, then closes the socket.  So when     *)
(* disconnect has cancelled the reader task and waits for it, the          *)
(* keepalive task that login started is no longer running, and when the    *)
(* writer has been closed neither task is.                                 *)
(***************************************************************************)
C26_DisconnectOrder ==
    /\ pc["main"] = "disc_reader" => ~Alive(keepalive_tasks)
    /\ pc["main"] = "disc_close" => ~Alive(keepalive_tasks) /\ ~Alive(reader_tasks)

(***************************************************************************)
(* C27: the packet reader waits neither for the lock nor for a response.   *)
(* While a task holds the lock and awaits its response, a reader that has  *)
(* a whole frame on the stream can take its step; a DATA frame it decodes  *)
(* then is acknowledged in that step and a SYSTEM frame is put on the      *)
(* response queue for the waiting task.                                    *)
(***************************************************************************)
Awaited == \E p \in Procs : pc[p] = "wait_resp"

\* the frame at the head of the stream, <<>> when there is none
FrameOnStream == ReadPacket(inbox, eof).packet

\* with room left for the ACK within the bound on `sent`
ReaderCanStep ==
    \A r \in DOMAIN reader_tasks :
        (Awaited /\ reader_tasks[r] = "run" /\ FrameOnStream # <<>> /\ Len(sent) < MaxSent)
            => ENABLED PacketReader(r)

ReaderServes ==
    (Awaited /\ ReaderReads /\ FrameOnStream # <<>>) =>
        /\ At(FrameOnStream, 4) = PACKET_TYPE_DATA /\ writer = "open"
              => sent' = Append(sent, AckPacket)
        /\ At(FrameOnStream, 4) = PACKET_TYPE_SYSTEM
              => respq' = Append(respq, FrameOnStream)

C27_ReaderNeverBlocks == []ReaderCanStep /\ [][ReaderServes]_vars

(***************************************************************************)
(* C28: every frame is written to the socket by a task that holds the      *)
(* lock: a command by the task that has it at the head of the lock's       *)
(* queue, and an ACK or a keepalive frame likewise under the lock.  The    *)
(* lock is held by tasks in _send_packet only, so each step that writes    *)
(* is a step of the lock's holder writing its command.                     *)
(***************************************************************************)
C28_Step ==
    sent' # sent =>
        \E p \in Procs : CommandWrittenBy(p) /\ lockq' # <<>> /\ Head(lockq') = p

C28_SingleSendGate == [][C28_Step]_vars

(***************************************************************************)
(* C29: when a keepalive write fails, connected becomes false (and with    *)
(* it is_connected()), the keepalive task ends and writes nothing; a       *)
(* keepalive task that has ended never runs again.                         *)
(***************************************************************************)
\* a keepalive task ends of itself on a session connected and logged in:
\* its write has failed
KeepaliveWriteFails ==
    /\ pc' = pc
    /\ connected /\ logged_in
    /\ \E k \in DOMAIN keepalive_tasks :
          /\ keepalive_tasks[k] = "sleep"
          /\ keepalive_tasks' = [keepalive_tasks EXCEPT ![k] = "done"]

C29_Step ==
    /\ KeepaliveWriteFails => ~connected' /\ ~(connected' /\ logged_in') /\ sent' = sent
    /\ \A k \in DOMAIN keepalive_tasks :
          keepalive_tasks[k] = "done" => keepalive_tasks'[k] = "done"

C29_KeepaliveWriteFailure == [][C29_Step]_vars

\* the panel has closed the connection, the reader has not met the end of
\* the stream yet, and the keepalive task's write has failed
C29_Witness ==
    /\ op["main"] = "login" /\ pc["main"] = "idle" /\ result["main"].ok
    /\ eof /\ writer = "open"
    /\ reader_tasks = <<"run">>
    /\ keepalive_tasks = <<"done">>
    /\ ~connected /\ logged_in /\ ~IsConnected

(***************************************************************************)
(* C30: a record of a type the client does not know is skipped.  The       *)
(* reader's step on the frame of an unknown record followed by the record  *)
(* of door 6 leaves the input, output and area caches as they are, puts    *)
(* door 6 into the door cache, invokes listeners for door 6 only, and      *)
(* does all that the same frame without the unknown record would do; when  *)
(* no door listener raises, each door listener is invoked once and the     *)
(* frame is acknowledged.                                                  *)
(***************************************************************************)
Door6 == ParseDoorStatusData(PackI(6) \o <<1, 2, 0, 0>>)[1]

DecodesUnknownDoor == ReaderReads /\ FrameOnStream = UnknownDoorPacket

C30_Step ==
    DecodesUnknownDoor =>
        LET without == ProcessDataPacket(Door6Packet, DispatchState)
            new == SubSeq(calls', Len(calls) + 1, Len(calls'))
        IN  /\ doors' = Put(doors, Door6)
            /\ UNCHANGED <<inputs, outputs, areas>>
            /\ SubSeq(calls', 1, Len(calls)) = calls
            /\ \A i \in DOMAIN new : new[i].class = "door" /\ new[i].index = 6
            /\ calls' = without.c.calls
            /\ (sent' = Append(sent, AckPacket)) <=> ~without.exc
            /\ (\A i \in DOMAIN callbacks["door"] : ~Raises(callbacks["door"][i])) =>
                  /\ Len(new) = Len(callbacks["door"])
                  /\ sent' = Append(sent, AckPacket)

C30_UnknownTlvSkipped == [][C30_Step]_vars

\* the frame has been decoded with listener l1 registered for doors: door 6
\* is cached, l1 was invoked for it, and the ACK is written
C30_Witness ==
    /\ panel_sent = 1 /\ data_rcvd = 1 /\ inbox = <<>>
    /\ callbacks["door"] = <<"l1">>
    /\ 6 \in DOMAIN doors /\ doors[6] = Door6
    /\ areas = <<>>
    /\ Len(calls) = 1 /\ calls[1].listener = "l1" /\ calls[1].index = 6
    /\ Last(sent) = AckPacket


(***************************************************************************)
(* C31: a status record whose declared length exceeds the bytes the        *)
(* frame's payload has left is a truncation error: the reader step that    *)
(* decodes the frame changes no entity cache and invokes no listener (the  *)
(* checksum trailer is not taken for record data), and the session stays   *)
(* up.                                                                     *)
(***************************************************************************)
C31_TruncatedRecordDropped ==
    [][ReaderReads /\ FrameOnStream \in TruncatedFrames
          => UNCHANGED <<caches, calls, connected>>]_vars

(***************************************************************************)
(* C32: in every reachable state every cache entry is stored under its own *)
(* index and its derived flags agree with its raw fields.                  *)
(***************************************************************************)
C32_CacheInvariant ==
    /\ \A i \in DOMAIN doors :
          /\ doors[i].index = i
          /\ doors[i].is_locked <=> (doors[i].lock_state = DOOR_LOCKED)
          /\ doors[i].is_open <=> (doors[i].door_state # DOOR_STATE_CLOSED)
    /\ \A i \in DOMAIN inputs :
          /\ inputs[i].index = i
          /\ inputs[i].is_open <=> (inputs[i].state = INPUT_OPEN)
          /\ inputs[i].is_bypassed <=> (inputs[i].bypass % 2 = 1)
    /\ \A i \in DOMAIN outputs :
          /\ outputs[i].index = i
          /\ outputs[i].is_on <=> (outputs[i].state # OUTPUT_OFF)
    /\ \A i \in DOMAIN areas :
          /\ areas[i].index = i
          /\ areas[i].is_armed <=> (areas[i].state >= AREA_ARMED)
          /\ areas[i].alarm_active <=> (areas[i].flags % 2 = 1)

\* the four caches hold entries: doors 5 and 300, an input bypassed with
\* flags 3, an output that is on, an area armed with state 128 exactly
C32_Witness ==
    /\ DOMAIN doors = {5, 300}
    /\ 5 \in DOMAIN inputs /\ inputs[5].bypass = 3 /\ inputs[5].is_bypassed
    /\ 5 \in DOMAIN outputs /\ outputs[5].is_on
    /\ 2 \in DOMAIN areas /\ areas[2].state = AREA_ARMED /\ areas[2].is_armed


(***************************************************************************)
(* Which command a response answers, on a connection where every frame of  *)
(* the panel is a reply (SpecPanel): the replies reach the response queue  *)
(* in the order they were sent, and the queue loses frames at its head     *)
(* only.                                                                   *)
(***************************************************************************)
\* the number of whole frames on a stream
RECURSIVE FrameCount(_)
FrameCount(stream) ==
    IF Len(stream) < 4 THEN 0
    ELSE 1 + FrameCount(Slice(stream, UnpackH(Slice(stream, 2, 4)), Len(stream)))

\* the head of the response queue is the panel's reply to the HeadReply-th
\* command written
HeadReply == panel_sent - FrameCount(inbox) - Len(respq) + 1

\* task p takes the head of the response queue for the response to its command
GetsResponse(p) ==
    /\ pc[p] = "wait_resp" /\ respq # <<>>
    /\ pc'[p] # pc[p] \/ cmd'[p] # cmd[p]

\* the place, among the commands written, of the last login command
LastLogin ==
    LET cmds == Commands(sent)
        at == {i \in DOMAIN cmds : cmds[i] = LoginPacket(Digits(pin))}
    IN  CHOOSE i \in at : \A j \in at : j <= i

(***************************************************************************)
(* C33: login takes its command for ACKed, and marks the session logged    *)
(* in, only on the panel's reply to the login command itself, never on     *)
(* the reply to a command written before it.                               *)
(***************************************************************************)
C33_LoginAckIsForLogin ==
    [][GetsResponse("main") /\ cmd["main"] = "login" /\ logged_in'
          => HeadReply = LastLogin]_vars


(***************************************************************************)
(* C35: the frame a command gets for its response is never the panel's     *)
(* reply to an are-you-there of the keepalive task.  (The first command    *)
(* written on the connection is the are-you-there of connect(); every      *)
(* later one is a keepalive.)                                              *)
(***************************************************************************)
KeepaliveCommand(j) ==
    j > 1 /\ j <= Len(Commands(sent)) /\ Commands(sent)[j] = AreYouTherePacket

C35_KeepaliveReplyNotReturned ==
    [][\A p \in Procs : GetsResponse(p) => ~KeepaliveCommand(HeadReply)]_vars


(***************************************************************************)
(* C34: is_connected() is true only if a login was ACKed on the current    *)
(* connection: when connect() opens a new connection after the last one    *)
(* was lost, is_connected() is false until a login is ACKed on it.         *)
(***************************************************************************)
\* connect() has opened a connection and started its reader
ConnectOpens == Len(reader_tasks') = Len(reader_tasks) + 1

C34_IsConnectedNeedsLogin ==
    [][ConnectOpens /\ ~connected => ~(connected' /\ logged_in')]_vars

(***************************************************************************)
(* C36: no COMMAND frame is written while the session is marked not        *)
(* connected; a call that waited for the lock while the connection was     *)
(* lost returns without writing once it holds the lock.                    *)
(***************************************************************************)
C36_NoWriteWhenNotConnected == [][WritesCommand => connected']_vars

(***************************************************************************)
(* C37: at most one packet reader task reads from the socket at any time.  *)
(***************************************************************************)
C37_OneReader == Cardinality({r \in DOMAIN reader_tasks : reader_tasks[r] = "run"}) <= 1

(***************************************************************************)
(* C38: at most one keepalive task is alive at any time.                   *)
(***************************************************************************)
C38_OneKeepalive == Cardinality(Running(keepalive_tasks)) <= 1


SomeListenerRaises ==
    \E class \in RegClasses : \E i \in DOMAIN callbacks[class] : Raises(callbacks[class][i])

C40_RaisingListenerIsolated ==
    [][ReaderReads /\ FrameOnStream = DoorAreaPacket /\ SomeListenerRaises
          => /\ calls' = calls \o Due(RecordsOf(DoorAreaPacket))
             /\ doors' = Put(doors, DoorOpen5)
             /\ areas' = Put(areas, Area2)
             /\ sent' = Append(sent, AckPacket)
             /\ connected' = connected]_vars

=============================================================================
